---------------------------- MODULE Spec2Model ----------------------------
(***************************************************************************)
(* A model of AnthropicChatGenerator (src/anthropic_chat_generator.py):    *)
(* the constructor and the run method, one action per statement group of   *)
(* run.                                                                    *)
(*                                                                         *)
(* Text is a sequence of tokens.  A token is one character ("{", "}",      *)
(* the double quote, ":", ",", "1", "a", " ") or one fixed literal of the   *)
(* program (an instruction string, a block's repr) kept whole.  String      *)
(* concatenation is \o, slicing is SubSeq, and str.find / str.rfind /       *)
(* str.strip / json.loads are computed over the tokens.                     *)
(***************************************************************************)
EXTENDS Integers, Sequences, FiniteSets, TLC

(***************************************************************************)
(* Bounds of the model.                                                    *)
(***************************************************************************)
\* longest conversation of the translation specification
MaxMsgs == 3
\* longest response content list of the extraction specification
MaxBlocks == 3
\* longest conversation of the statelessness specification
MaxMsgsS == 1
\* invocations of run on one adapter in the statelessness specification
MaxRuns == 3

(***************************************************************************)
(* Optional values (Python None / a value).                                *)
(* None is the empty sequence, a value v is <<v>>.                         *)
(***************************************************************************)
None == <<>>
Some(v) == <<v>>
IsSome(o) == o # <<>>
Val(o) == o[1]
\* Python truthiness of an Optional[str]: None and "" are falsy
Truthy(o) == o # <<>> /\ o[1] # <<>>

(***************************************************************************)
(* Literals of the program.                                                *)
(***************************************************************************)
\* line 17: default of the model parameter
DEFAULT_MODEL == "claude-3-5-sonnet-20241022"
\* line 50: appended to the last user message in json mode
USER_JSON_SUFFIX == <<"\n\nIMPORTANT: You must respond with valid JSON only. Do not include any text outside of the JSON structure.">>
\* line 58: appended to a system message in json mode
SYSTEM_JSON_SUFFIX == <<"\n\nYou must always respond with valid JSON format only.">>
\* line 72: the system directive of json mode when no system message exists
DEFAULT_JSON_SYSTEM == <<"You must always respond with valid JSON format only. Do not include any explanatory text outside the JSON structure.">>
\* line 63
MAX_TOKENS == 1024

(***************************************************************************)
(* Python string operations, over token sequences.                         *)
(***************************************************************************)
IsSpace(c) == c = " "

RECURSIVE LStrip(_)
LStrip(s) == IF s # <<>> /\ IsSpace(Head(s)) THEN LStrip(Tail(s)) ELSE s

RECURSIVE RStrip(_)
RStrip(s) ==
    IF s # <<>> /\ IsSpace(s[Len(s)]) THEN RStrip(SubSeq(s, 1, Len(s) - 1)) ELSE s

\* str.strip()
Strip(s) == RStrip(LStrip(s))

\* str.find(c) scanning from position i; Python index (0-based), -1 if absent
RECURSIVE FindFrom(_, _, _)
FindFrom(s, c, i) ==
    IF i > Len(s) THEN -1
    ELSE IF s[i] = c THEN i - 1
    ELSE FindFrom(s, c, i + 1)

Find(s, c) == FindFrom(s, c, 1)

\* str.rfind(c) scanning down from position i; Python index, -1 if absent
RECURSIVE RFindFrom(_, _, _)
RFindFrom(s, c, i) ==
    IF i < 1 THEN -1
    ELSE IF s[i] = c THEN i - 1
    ELSE RFindFrom(s, c, i - 1)

RFind(s, c) == RFindFrom(s, c, Len(s))

\* s[a:b] for 0 <= a <= b <= len(s)
Slice(s, a, b) == SubSeq(s, a + 1, b)

(***************************************************************************)
(* json.loads, restricted to the model's alphabet (texts of the model are   *)
(* a few tokens long: the recursion and integer-digit limits of json.loads *)
(* are out of reach): a document is                                        *)
(* ws value ws; a value is an object, a string or a number of digits "1";  *)
(* an object is { ws } or { ws string ws : ws value ws (, ws string ...) }.*)
(* A scanner returns the 1-based position after what it read, 0 on a       *)
(* JSONDecodeError.                                                        *)
(***************************************************************************)
RECURSIVE SkipWs(_, _)
SkipWs(s, i) == IF i <= Len(s) /\ IsSpace(s[i]) THEN SkipWs(s, i + 1) ELSE i

\* the closing quote of a string whose opening quote is before position i
RECURSIVE ScanString(_, _)
ScanString(s, i) ==
    IF i > Len(s) THEN 0
    ELSE IF s[i] = "\"" THEN i + 1
    ELSE ScanString(s, i + 1)

RECURSIVE ScanNumber(_, _)
ScanNumber(s, i) == IF i <= Len(s) /\ s[i] = "1" THEN ScanNumber(s, i + 1) ELSE i

RECURSIVE ScanValue(_, _)
RECURSIVE ScanMembers(_, _)

\* position i is at the opening quote of a key
ScanMembers(s, i) ==
    IF i > Len(s) \/ s[i] # "\"" THEN 0
    ELSE LET k == ScanString(s, i + 1)
             c == IF k = 0 THEN 0 ELSE SkipWs(s, k)
         IN  IF c = 0 \/ c > Len(s) \/ s[c] # ":" THEN 0
             ELSE LET v == ScanValue(s, SkipWs(s, c + 1))
                      e == IF v = 0 THEN 0 ELSE SkipWs(s, v)
                  IN  IF e = 0 \/ e > Len(s) THEN 0
                      ELSE IF s[e] = "}" THEN e + 1
                      ELSE IF s[e] = "," THEN ScanMembers(s, SkipWs(s, e + 1))
                      ELSE 0

ScanValue(s, i) ==
    IF i > Len(s) THEN 0
    ELSE IF s[i] = "{" THEN
        LET j == SkipWs(s, i + 1)
        IN  IF j <= Len(s) /\ s[j] = "}" THEN j + 1 ELSE ScanMembers(s, j)
    ELSE IF s[i] = "\"" THEN ScanString(s, i + 1)
    ELSE IF s[i] = "1" THEN ScanNumber(s, i)
    ELSE 0

\* TRUE iff json.loads(s) returns, FALSE iff it raises JSONDecodeError
JsonLoads(s) ==
    LET v == ScanValue(s, SkipWs(s, 1))
    IN  v # 0 /\ SkipWs(s, v) = Len(s) + 1


(***************************************************************************)
(* The inputs.                                                             *)
(***************************************************************************)
Roles == {"user", "assistant", "system", "tool"}
Texts == {<<>>, <<"a">>, <<"b">>}
\* a ChatMessage: equality is by value (a dataclass)
ChatMessages == [role : Roles, text : Texts]
Conversations(n) == UNION {[1..k -> ChatMessages] : k \in 0..n}

\* the smaller conversations of the statelessness specification
ChatMessagesS == [role : {"user", "system"}, text : {<<"a">>, <<"b">>}]
ConversationsS(n) == UNION {[1..k -> ChatMessagesS] : k \in 0..n}

\* texts of response blocks: a JSON object, prose, a space, lone braces
JsonObject == <<"{", "\"", "a", "\"", ":", "1", "}">>
Prose == <<"a">>
BlockTexts == {JsonObject, Prose, <<" ">>, <<"{">>, <<"}">>}

(* A content block: is_dict (a mapping, not an object), has_text (the text  *)
(* attribute, or the "text" key of a mapping), text, type (the type         *)
(* attribute of an object; "" when there is none), repr (str(block)).       *)
TextBlock(t) ==
    [is_dict |-> FALSE, has_text |-> TRUE, text |-> t, type |-> "text",
     repr |-> <<"TextBlock(...)">>]
DictTextBlock(t) ==
    [is_dict |-> TRUE, has_text |-> TRUE, text |-> t, type |-> "",
     repr |-> <<"{", "'text': ...", "}">>]
ToolUseBlock ==
    [is_dict |-> FALSE, has_text |-> FALSE, text |-> <<>>, type |-> "tool_use",
     repr |-> <<"ToolUseBlock(id='t', input=", "{", "}", ", name='n', type='tool_use')">>]
DictImageBlock ==
    [is_dict |-> TRUE, has_text |-> FALSE, text |-> <<>>, type |-> "",
     repr |-> <<"{", "'type': 'image'", "}">>]
\* an object whose type is "text" and that has no text attribute
TypedNoTextBlock ==
    [is_dict |-> FALSE, has_text |-> FALSE, text |-> <<>>, type |-> "text",
     repr |-> <<"Block(type='text')">>]

Blocks ==
    {TextBlock(t) : t \in BlockTexts}
        \cup {DictTextBlock(JsonObject), DictTextBlock(Prose)}
        \cup {ToolUseBlock, DictImageBlock, TypedNoTextBlock}
Contents(n) == UNION {[1..k -> Blocks] : k \in 0..n}

\* the few responses of the specifications that vary the conversation
ContentsFew == {<<TextBlock(Prose)>>, <<TextBlock(JsonObject)>>}

\* failures of the remote call
ApiErrors == {"RateLimitError", "APIConnectionError"}

ApiKeys == {None, Some(<<>>), Some(<<"k1">>), Some(<<"k2">>)}
Models == {DEFAULT_MODEL, "claude-sonnet-4-5-20250929"}

(***************************************************************************)
(* The state.                                                              *)
(***************************************************************************)
VARIABLES
    pc,                 \* where the constructor or run stands
    exc,                \* the exception that left the constructor or run, "" if none
    init_args,          \* the arguments of __init__
    environ,            \* os.environ's ANTHROPIC_API_KEY, None when unset
    self,               \* the adapter: client (its api key), model, json_mode
    messages,           \* run's argument, the caller's list
    idx,                \* position of the for loop over messages
    anthropic_messages, \* local of run
    system_message,     \* local of run
    api_params,         \* local of run, None until built
    calls,              \* requests issued to the completion endpoint
    sent,               \* the last request the endpoint received
    runs,               \* invocations of run started
    response,           \* response.content, None until the call returned
    bidx,               \* position of the for loop over response.content
    reply_content,      \* local of run
    replies,            \* run's return value {"replies": [...]}, None until it returns
    caller_messages,    \* the conversation as the caller built it
    earlier             \* one earlier, completed invocation of run (history)

vars ==
    <<pc, exc, init_args, environ, self, messages, idx, anthropic_messages,
      system_message, api_params, calls, sent, runs, response, bidx,
      reply_content, replies, caller_messages, earlier>>

ctorVars == <<init_args, environ>>
runLocals ==
    <<messages, idx, anthropic_messages, system_message, api_params, response,
      bidx, reply_content, replies, caller_messages, earlier, runs>>

(***************************************************************************)
(* __init__                                                                *)
(***************************************************************************)
\* the slip "api_key if api_key is not None else os.getenv(...)"
ResolveKeyIfNotNone(api_key, env) == IF IsSome(api_key) THEN api_key ELSE env

\* line 25: api_key or os.getenv("ANTHROPIC_API_KEY")
ResolveKey(api_key, env) == IF Truthy(api_key) THEN api_key ELSE env

NoAdapter == [client |-> None, model |-> "", json_mode |-> FALSE]

\* lines 25-31: the adapter, and the exception raised ("" if none)
AdapterInit(args, env) ==
    LET api_key == ResolveKey(args.api_key, env)
    IN  IF ~Truthy(api_key)
        THEN [exc |-> "ValueError", self |-> NoAdapter]
        ELSE [exc |-> "",
              self |-> [client |-> api_key, model |-> args.model,
                        json_mode |-> args.json_mode]]

Construct ==
    /\ pc = "new"
    /\ LET r == AdapterInit(init_args, environ)
       IN  /\ self' = r.self
           /\ exc' = r.exc
           /\ pc' = IF r.exc = "" THEN "idle" ELSE "ctor_raised"
    /\ UNCHANGED <<ctorVars, runLocals, calls, sent>>

(***************************************************************************)
(* run: message translation (lines 42-58)                                  *)
(***************************************************************************)
\* line 49: msg == messages[-1], equality of ChatMessage values
IsLastMessage(msg, msgs) == msg = msgs[Len(msgs)]

\* lines 47-50: the content of the entry of a user message
UserContent(msg, msgs, json_mode) ==
    IF json_mode /\ IsLastMessage(msg, msgs)
    THEN msg.text \o USER_JSON_SUFFIX
    ELSE msg.text

\* lines 56-58: the system_message a system message leaves
SystemText(msg, json_mode) ==
    IF json_mode THEN Some(msg.text \o SYSTEM_JSON_SUFFIX) ELSE Some(msg.text)

\* the slip of an else branch that passes every other role through
AppendTranslatedAnyRole(out, msg, msgs, json_mode) ==
    IF msg.role = "user"
    THEN Append(out, [role |-> "user", content |-> UserContent(msg, msgs, json_mode)])
    ELSE IF msg.role = "system"
    THEN out
    ELSE Append(out, [role |-> msg.role, content |-> msg.text])

\* lines 46-53: anthropic_messages after the loop body ran on msg
AppendTranslated(out, msg, msgs, json_mode) ==
    IF msg.role = "user"
    THEN Append(out, [role |-> "user", content |-> UserContent(msg, msgs, json_mode)])
    ELSE IF msg.role = "assistant"
    THEN Append(out, [role |-> "assistant", content |-> msg.text])
    ELSE out

\* the slip of keeping system_message on the adapter instead of in a local
CarriedSystemMessage(old) == old

\* line 43: system_message at the start of an invocation; old is what an
\* earlier invocation left in its own local of that name
InitialSystemMessage(old) == None

\* the slip of leaving out the elif branch of line 70
SystemDirectiveNoDefault(sysmsg, json_mode) ==
    IF Truthy(sysmsg) THEN sysmsg ELSE None

\* lines 67-72: the "system" entry of api_params, None when the key is not set
SystemDirective(sysmsg, json_mode) ==
    IF Truthy(sysmsg) THEN sysmsg
    ELSE IF json_mode THEN Some(DEFAULT_JSON_SYSTEM)
    ELSE None

\* the slip of sending the default model instead of self.model
ApiParamsDefaultModel(model, msgs, sysmsg, json_mode) ==
    [model |-> DEFAULT_MODEL, max_tokens |-> MAX_TOKENS, messages |-> msgs,
     system |-> SystemDirective(sysmsg, json_mode)]

\* lines 61-72
ApiParams(model, msgs, sysmsg, json_mode) ==
    [model |-> model, max_tokens |-> MAX_TOKENS, messages |-> msgs,
     system |-> SystemDirective(sysmsg, json_mode)]

(***************************************************************************)
(* run: content extraction and JSON coercion (lines 77-111)                *)
(***************************************************************************)
\* hasattr(block, name) for name in {"text", "type"}
HasAttr(block, name) ==
    /\ ~block.is_dict
    /\ IF name = "text" THEN block.has_text ELSE block.type # ""

\* block.text: the attribute, or AttributeError
GetAttrText(block) ==
    IF HasAttr(block, "text")
    THEN [exc |-> "", text |-> block.text]
    ELSE [exc |-> "AttributeError", text |-> <<>>]

\* the slip of skipping a block that carries no text
BlockTextSkipsOpaque(block) ==
    IF HasAttr(block, "text") THEN [exc |-> "", text |-> block.text]
    ELSE IF block.is_dict /\ block.has_text THEN [exc |-> "", text |-> block.text]
    ELSE IF HasAttr(block, "type") /\ block.type = "text" THEN GetAttrText(block)
    ELSE [exc |-> "", text |-> <<>>]

\* lines 82-89: what the loop body adds to reply_content, or the exception
BlockText(block) ==
    IF HasAttr(block, "text") THEN [exc |-> "", text |-> block.text]
    ELSE IF block.is_dict /\ block.has_text THEN [exc |-> "", text |-> block.text]
    ELSE IF HasAttr(block, "type") /\ block.type = "text" THEN GetAttrText(block)
    ELSE [exc |-> "", text |-> block.repr]

\* the slip of slicing reply_content[start_idx:end_idx]
CoerceJsonExclusiveEnd(reply) ==
    LET stripped == Strip(reply)
    IN  IF JsonLoads(stripped) THEN stripped
        ELSE LET start_idx == Find(stripped, "{")
                 end_idx == RFind(stripped, "}")
             IN  IF start_idx # -1 /\ end_idx # -1 /\ end_idx > start_idx
                 THEN LET json_str == Slice(stripped, start_idx, end_idx)
                      IN  IF JsonLoads(json_str) THEN json_str ELSE stripped
                 ELSE stripped

\* lines 94-111
CoerceJson(reply) ==
    LET stripped == Strip(reply)
    IN  IF JsonLoads(stripped) THEN stripped
        ELSE LET start_idx == Find(stripped, "{")
                 end_idx == RFind(stripped, "}")
             IN  IF start_idx # -1 /\ end_idx # -1 /\ end_idx > start_idx
                 THEN LET json_str == Slice(stripped, start_idx, end_idx + 1)
                      IN  IF JsonLoads(json_str) THEN json_str ELSE stripped
                 ELSE stripped

(***************************************************************************)
(* run, step by step                                                       *)
(***************************************************************************)
\* what is remembered of a completed invocation
Snapshot ==
    [messages |-> messages, sent |-> sent, response |-> response, pc |-> pc,
     exc |-> exc, replies |-> replies]

\* lines 34-43: the caller invokes run(conv)
RunBegin(conv) ==
    /\ pc \in {"idle", "done", "raised"}
    /\ pc' = "translate"
    /\ exc' = ""
    /\ runs' = runs + 1
    /\ messages' = conv
    /\ caller_messages' = conv
    /\ idx' = 1
    /\ anthropic_messages' = <<>>
    /\ system_message' = InitialSystemMessage(system_message)
    /\ api_params' = None
    /\ response' = None
    /\ bidx' = 1
    /\ reply_content' = <<>>
    /\ replies' = None
    /\ \E e \in {earlier} \cup (IF pc = "idle" THEN {} ELSE {Some(Snapshot)}) :
          earlier' = e
    /\ UNCHANGED <<ctorVars, self, calls, sent>>

\* the only invocation of a behaviour, on one of convs
FirstRun(convs) == runs = 0 /\ \E conv \in convs : RunBegin(conv)

\* one of several invocations on the same adapter, each on one of convs
AnotherRun(convs) ==
    /\ runs < MaxRuns
    /\ pc \in {"idle", "done", "raised"}
    /\ \E conv \in convs : RunBegin(conv)

\* lines 45-58: one iteration of the loop over messages
TranslateStep ==
    /\ pc = "translate"
    /\ idx <= Len(messages)
    /\ LET msg == messages[idx]
       IN  /\ anthropic_messages' =
                 AppendTranslated(anthropic_messages, msg, messages, self.json_mode)
           /\ system_message' =
                 IF msg.role = "system" THEN SystemText(msg, self.json_mode)
                 ELSE system_message
    /\ idx' = idx + 1
    /\ UNCHANGED <<pc, exc, ctorVars, self, messages, api_params, calls, sent, runs,
                   response, bidx, reply_content, replies, caller_messages, earlier>>

\* lines 60-72: the loop is over, api_params is built
BuildParams ==
    /\ pc = "translate"
    /\ idx > Len(messages)
    /\ api_params' =
          Some(ApiParams(self.model, anthropic_messages, system_message, self.json_mode))
    /\ pc' = "call"
    /\ UNCHANGED <<exc, ctorVars, self, messages, idx, anthropic_messages,
                   system_message, calls, sent, runs, response, bidx, reply_content,
                   replies, caller_messages, earlier>>

\* line 75: the request is sent and a response, one of contents, arrives
CallReturns(contents) ==
    /\ pc = "call"
    /\ calls' = calls + 1
    /\ sent' = api_params
    /\ \E content \in contents : response' = Some(content)
    /\ reply_content' = <<>>
    /\ bidx' = 1
    /\ pc' = "extract"
    /\ UNCHANGED <<exc, ctorVars, self, messages, idx, anthropic_messages,
                   system_message, api_params, runs, replies, caller_messages, earlier>>

\* line 75: the request is sent and the call raises one of errs, which leaves run
CallRaises(errs) ==
    /\ pc = "call"
    /\ calls' = calls + 1
    /\ sent' = api_params
    /\ \E err \in errs : exc' = err
    /\ pc' = "raised"
    /\ UNCHANGED <<ctorVars, self, messages, idx, anthropic_messages, system_message,
                   api_params, runs, response, bidx, reply_content, replies,
                   caller_messages, earlier>>

\* lines 81-89: one iteration of the loop over response.content
ExtractStep ==
    /\ pc = "extract"
    /\ bidx <= Len(Val(response))
    /\ LET r == BlockText(Val(response)[bidx])
       IN  /\ exc' = r.exc
           /\ pc' = IF r.exc = "" THEN "extract" ELSE "raised"
           /\ reply_content' = IF r.exc = "" THEN reply_content \o r.text ELSE reply_content
    /\ bidx' = bidx + 1
    /\ UNCHANGED <<ctorVars, self, messages, idx, anthropic_messages, system_message,
                   api_params, calls, sent, runs, response, replies, caller_messages,
                   earlier>>

\* lines 91-111: the loop is over (or response.content was empty)
Coerce ==
    /\ pc = "extract"
    /\ bidx > Len(Val(response))
    /\ reply_content' = IF self.json_mode THEN CoerceJson(reply_content) ELSE reply_content
    /\ pc' = "wrap"
    /\ UNCHANGED <<exc, ctorVars, self, messages, idx, anthropic_messages,
                   system_message, api_params, calls, sent, runs, response, bidx,
                   replies, caller_messages, earlier>>

\* lines 113-116
Return ==
    /\ pc = "wrap"
    /\ replies' = Some(<<[role |-> "assistant", text |-> reply_content]>>)
    /\ pc' = "done"
    /\ UNCHANGED <<exc, ctorVars, self, messages, idx, anthropic_messages,
                   system_message, api_params, calls, sent, runs, response, bidx,
                   reply_content, caller_messages, earlier>>

(***************************************************************************)
(* Specifications.                                                         *)
(***************************************************************************)
BlankRun ==
    /\ messages = <<>>
    /\ caller_messages = <<>>
    /\ idx = 1
    /\ anthropic_messages = <<>>
    /\ system_message = None
    /\ api_params = None
    /\ calls = 0
    /\ sent = None
    /\ runs = 0
    /\ response = None
    /\ bidx = 1
    /\ reply_content = <<>>
    /\ replies = None
    /\ earlier = None

\* before __init__, with any arguments and any environment
InitNew ==
    /\ pc = "new"
    /\ exc = ""
    /\ init_args \in [api_key : ApiKeys, model : Models, json_mode : BOOLEAN]
    /\ environ \in ApiKeys
    /\ self = NoAdapter
    /\ BlankRun

\* after AnthropicChatGenerator(api_key="k1", json_mode=jm), with the variable unset
Init ==
    /\ pc = "idle"
    /\ exc = ""
    /\ init_args \in [api_key : {Some(<<"k1">>)}, model : {DEFAULT_MODEL},
                      json_mode : BOOLEAN]
    /\ environ = None
    /\ self = AdapterInit(init_args, environ).self
    /\ BlankRun

RunSteps == TranslateStep \/ BuildParams \/ ExtractStep \/ Coerce \/ Return

\* the constructor alone
NextInit == Construct
SpecInit == InitNew /\ [][NextInit]_vars

\* one invocation, any conversation, few responses
Next ==
    \/ FirstRun(Conversations(MaxMsgs))
    \/ CallReturns(ContentsFew)
    \/ CallRaises(ApiErrors)
    \/ RunSteps
Spec == Init /\ [][Next]_vars

\* one invocation, one conversation, any response
UserAsks == <<[role |-> "user", text |-> <<"a">>]>>
NextExtract ==
    \/ FirstRun({UserAsks})
    \/ CallReturns(Contents(MaxBlocks))
    \/ CallRaises(ApiErrors)
    \/ RunSteps
SpecExtract == Init /\ [][NextExtract]_vars

\* several invocations on one adapter, of either model
InitAnyModel ==
    /\ pc = "idle"
    /\ exc = ""
    /\ init_args \in [api_key : {Some(<<"k1">>)}, model : Models, json_mode : BOOLEAN]
    /\ environ = None
    /\ self = AdapterInit(init_args, environ).self
    /\ BlankRun

NextStateless ==
    \/ AnotherRun(ConversationsS(MaxMsgsS))
    \/ CallReturns(ContentsFew)
    \/ CallRaises(ApiErrors)
    \/ RunSteps
SpecStateless == InitAnyModel /\ [][NextStateless]_vars

(***************************************************************************)
(* Vocabulary of the properties.                                           *)
(***************************************************************************)
Min(S) == CHOOSE x \in S : \A y \in S : x <= y
Max(S) == CHOOSE x \in S : \A y \in S : x >= y

\* the k-th smallest element of a set of numbers, as a sequence
Ascending(S) ==
    [k \in 1..Cardinality(S) |-> CHOOSE i \in S : Cardinality({j \in S : j < i}) = k - 1]

\* positions of the user and assistant messages of a conversation, in order
RecognizedAt(msgs) ==
    Ascending({i \in 1..Len(msgs) : msgs[i].role \in {"user", "assistant"}})
SystemAt(msgs) == {i \in 1..Len(msgs) : msgs[i].role = "system"}

EndsWith(s, suffix) ==
    Len(s) >= Len(suffix) /\ SubSeq(s, Len(s) - Len(suffix) + 1, Len(s)) = suffix
\* the non-empty text t occurs somewhere in s
Occurs(t, s) == \E i \in 1..Len(s) : SubSeq(s, i, i + Len(t) - 1) = t

\* the request is built
Built == IsSome(api_params)
Request == Val(api_params)

\* the text without its leading and trailing spaces
Trimmed(s) ==
    LET N == {i \in 1..Len(s) : s[i] # " "}
    IN  IF N = {} THEN <<>> ELSE SubSeq(s, Min(N), Max(N))

\* the three-step fallback of the JSON repair, on a trimmed text
Repaired(t) ==
    LET Open == {i \in 1..Len(t) : t[i] = "{"}
        Close == {i \in 1..Len(t) : t[i] = "}"}
    IN  IF JsonLoads(t) THEN t
        ELSE IF Open # {} /\ Close # {} /\ Max(Close) > Min(Open)
                  /\ JsonLoads(SubSeq(t, Min(Open), Max(Close)))
        THEN SubSeq(t, Min(Open), Max(Close))
        ELSE t

\* the fragment a block contributes: text attribute, else "text" entry, else
\* the text payload of a block of type "text", else its raw representation
Fragment(b) ==
    IF ~b.is_dict /\ b.has_text THEN b.text
    ELSE IF b.is_dict /\ b.has_text THEN b.text
    ELSE IF b.type = "text" THEN b.text
    ELSE b.repr

RECURSIVE Fragments(_)
Fragments(content) ==
    IF content = <<>> THEN <<>> ELSE Fragment(Head(content)) \o Fragments(Tail(content))

AssistantReply(text) == Some(<<[role |-> "assistant", text |-> text]>>)

(***************************************************************************)
(* C1                                                                      *)
(***************************************************************************)
\* C1: in json mode the entry of a user message that is the last message of
\* the conversation ends with the JSON-only instruction, and the entry of every
\* other user message carries that message's text unchanged, an earlier message
\* equal to the last one included.
C1_OnlyLastUserMessageCarriesSuffix ==
    (Built /\ self.json_mode) =>
        LET at == RecognizedAt(messages)
            out == Request.messages
        IN  /\ Len(out) = Len(at)
            /\ \A k \in 1..Len(at) :
                  messages[at[k]].role = "user" =>
                      IF at[k] = Len(messages)
                      THEN EndsWith(out[k].content, USER_JSON_SUFFIX)
                      ELSE out[k].content = messages[at[k]].text

(***************************************************************************)
(* C2                                                                      *)
(***************************************************************************)
\* C2: when the conversation holds a system message, the request's system
\* directive is the text of the last one, followed by the JSON suffix exactly
\* when json mode is on; no entry of the messages list has the system role; the
\* text of an earlier system message that no other message carries occurs
\* nowhere in the request.
C2_LastSystemMessageIsTheDirective ==
    (Built /\ SystemAt(messages) # {}) =>
        LET last == Max(SystemAt(messages))
            text == messages[last].text
            out == Request.messages
        IN  /\ Request.system =
                  Some(IF self.json_mode THEN text \o SYSTEM_JSON_SUFFIX ELSE text)
            /\ \A k \in 1..Len(out) : out[k].role # "system"
            /\ \A j \in SystemAt(messages) \ {last} :
                  (/\ messages[j].text # <<>>
                   /\ \A i \in 1..Len(messages) :
                         i # j => messages[i].text # messages[j].text)
                  => /\ ~Occurs(messages[j].text, Val(Request.system))
                     /\ \A k \in 1..Len(out) : ~Occurs(messages[j].text, out[k].content)

(***************************************************************************)
(* C3                                                                      *)
(***************************************************************************)
\* C3: when the conversation holds no system message, the request has no
\* system directive with json mode off, and has exactly the default JSON
\* instruction as its system directive with json mode on.
C3_NoSystemMessage ==
    (Built /\ SystemAt(messages) = {}) =>
        IF self.json_mode
        THEN Request.system =
                 Some(<<"You must always respond with valid JSON format only. Do not include any explanatory text outside the JSON structure.">>)
        ELSE Request.system = None

C3_Witness ==
    /\ pc = "done"
    /\ self.json_mode
    /\ messages = <<[role |-> "user", text |-> <<"a">>], [role |-> "tool", text |-> <<"b">>]>>
    /\ IsSome(sent)
    /\ Val(sent).system = Some(DEFAULT_JSON_SYSTEM)

(***************************************************************************)
(* C4                                                                      *)
(***************************************************************************)
\* C4: the messages list of the request has one entry per user or assistant
\* message of the conversation, in the conversation's order and with the
\* message's role and text, and none for a message of any other role: its
\* length is the number of user and assistant messages.
C4_OneEntryPerRecognizedMessage ==
    Built =>
        LET at == RecognizedAt(messages)
            out == Request.messages
        IN  /\ Len(out) =
                  Cardinality({i \in 1..Len(messages) :
                                  messages[i].role \in {"user", "assistant"}})
            /\ Len(out) = Len(at)
            /\ \A k \in 1..Len(at) :
                  /\ out[k].role = messages[at[k]].role
                  /\ out[k].content \in
                        {messages[at[k]].text, messages[at[k]].text \o USER_JSON_SUFFIX}

C4_Witness ==
    /\ pc = "done"
    /\ messages = <<[role |-> "tool", text |-> <<"b">>],
                    [role |-> "assistant", text |-> <<"a">>],
                    [role |-> "user", text |-> <<"b">>]>>
    /\ IsSome(sent)
    /\ Len(Val(sent).messages) = 2
    /\ Val(sent).messages[1].role = "assistant"

(***************************************************************************)
(* C5                                                                      *)
(***************************************************************************)
\* C5: in json mode the reply text is the repair of the trimmed concatenation
\* of the response's text: the text itself when it parses as JSON, else the
\* part from its first "{" to its last "}" when that part parses, else the
\* text unmodified.  A lone JSON object stays, an object between prose is cut
\* out, and prose stays.
C5_ReplyIsRepairedText ==
    (pc = "done" /\ self.json_mode) =>
        /\ replies = AssistantReply(Repaired(Trimmed(Fragments(Val(response)))))
        /\ Val(response) = <<TextBlock(JsonObject)>> => replies = AssistantReply(JsonObject)
        /\ Val(response) = <<TextBlock(Prose), TextBlock(JsonObject), TextBlock(Prose)>>
              => replies = AssistantReply(JsonObject)
        /\ Val(response) = <<TextBlock(Prose), TextBlock(<<" ">>), TextBlock(Prose)>>
              => replies = AssistantReply(<<"a", " ", "a">>)

C5_Witness ==
    /\ pc = "done"
    /\ self.json_mode
    /\ response = Some(<<TextBlock(Prose), TextBlock(JsonObject), TextBlock(Prose)>>)
    /\ replies = AssistantReply(JsonObject)

(***************************************************************************)
(* C6                                                                      *)
(***************************************************************************)
\* C6: once the remote call has returned a response, run raises nothing:
\* whatever the shapes of the content blocks and the mode, it goes on to
\* return a reply.
C6_ExtractionNeverRaises ==
    IsSome(response) => (pc # "raised" /\ exc = "")

(***************************************************************************)
(* C7                                                                      *)
(***************************************************************************)
\* C7: an invocation of run issues exactly one request, with max_tokens 1024
\* and the adapter's model; when the request fails the failure leaves run as it
\* is, with no second request and no reply; when it succeeds no further request
\* is issued in that invocation.
C7_ExactlyOneRequest ==
    /\ calls = IF pc \in {"translate", "call"} THEN runs - 1 ELSE runs
    /\ pc \in {"extract", "wrap", "done", "raised"} =>
          /\ sent = api_params
          /\ Val(sent).max_tokens = 1024
          /\ Val(sent).model = init_args.model
    /\ (pc = "raised" /\ response = None) => (exc \in ApiErrors /\ replies = None)

C7_Witness ==
    /\ pc = "raised"
    /\ exc = "RateLimitError"
    /\ runs = 2
    /\ calls = 2
    /\ init_args.model # DEFAULT_MODEL

(***************************************************************************)
(* C8                                                                      *)
(***************************************************************************)
\* C8: the constructor raises, with no client created and no request issued,
\* exactly when neither the api_key argument nor ANTHROPIC_API_KEY is a
\* non-empty string; otherwise the client gets the argument when that is
\* non-empty and the variable's value when not.
C8_ConstructionFailsWithoutKey ==
    LET NonEmpty(k) == k # None /\ k # Some(<<>>)
    IN  pc # "new" =>
            /\ pc = "ctor_raised" <=> ~(NonEmpty(init_args.api_key) \/ NonEmpty(environ))
            /\ pc = "ctor_raised" =>
                  (exc = "ValueError" /\ self.client = None /\ calls = 0)
            /\ pc = "idle" =>
                  self.client =
                      IF NonEmpty(init_args.api_key) THEN init_args.api_key ELSE environ

C8_Witness ==
    /\ pc = "ctor_raised"
    /\ init_args.api_key = Some(<<>>)
    /\ environ = None

(***************************************************************************)
(* C9                                                                      *)
(***************************************************************************)
\* C9: across invocations the adapter keeps the model and json_mode it was
\* constructed with, run leaves the caller's conversation as it was, and an
\* invocation on the same conversation as an earlier one sends the same
\* request and, given the same response, ends the same way with the same reply.
C9_Stateless ==
    /\ self.model = init_args.model
    /\ self.json_mode = init_args.json_mode
    /\ messages = caller_messages
    /\ (IsSome(earlier) /\ Val(earlier).messages = messages) =>
          /\ pc \in {"extract", "wrap", "done", "raised"} => sent = Val(earlier).sent
          /\ (pc \in {"done", "raised"} /\ IsSome(response)
                /\ response = Val(earlier).response) =>
                (/\ pc = Val(earlier).pc
                 /\ exc = Val(earlier).exc
                 /\ replies = Val(earlier).replies)

C9_Witness ==
    /\ pc = "done"
    /\ runs = 3
    /\ IsSome(earlier)
    /\ Val(earlier).messages = messages
    /\ Val(earlier).response = response
    /\ Val(earlier).replies = replies
    /\ messages = <<[role |-> "user", text |-> <<"a">>]>>

(***************************************************************************)
(* C10                                                                     *)
(***************************************************************************)
\* C10: with json mode off the single reply run returns is an assistant
\* message whose text is the fragments of the response's blocks, in order, with
\* nothing between them and nothing trimmed; no blocks give the empty text.
C10_ReplyIsConcatenation ==
    (pc = "done" /\ ~self.json_mode) =>
        /\ replies = AssistantReply(Fragments(Val(response)))
        /\ Val(response) = <<>> => replies = AssistantReply(<<>>)

C10_Witness ==
    /\ pc = "done"
    /\ ~self.json_mode
    /\ response = Some(<<TextBlock(<<" ">>), ToolUseBlock, DictTextBlock(Prose)>>)
    /\ replies = AssistantReply(<<" ">> \o ToolUseBlock.repr \o Prose)

=============================================================================
